---- MODULE Spec2Model ----
(***************************************************************************)
(* MajsoulUID, majs_notify/majsoul.py: MajsoulConnection, MajsoulManager.  *)
(*                                                                         *)
(* The connection multiplexes rpc_call request/response pairs and NOTIFY   *)
(* frames over one websocket.  dispatch_msg is the read loop, process is   *)
(* the worker that turns queued handler coroutines into tasks, and the     *)
(* handle_* coroutines keep the friend registry.  asyncio is cooperative:  *)
(* every action below is the code between two suspension points.           *)
(***************************************************************************)
EXTENDS Naturals, Sequences, FiniteSets, TLC

(***************************************************************************)
(* Bounds of the model.                                                    *)
(***************************************************************************)
MaxUserCalls == 2
MaxFrames == 3
MaxLoginFrames == 4
MaxNotify == 2
MaxManagerCalls == 2
MaxCookies == 2
MaxLogLen == 2

(***************************************************************************)
(* Codec (majs_notify/codec.py is not among the sources): the kind tags,   *)
(* the first sequence index.                                               *)
(***************************************************************************)
NOTIFY == 1
REQUEST == 2
RESPONSE == 3
FirstIndex == 1

VARIABLES
    ws,                 \* self._ws: "None", or the socket: "open" / "closed"
    index,              \* self._codec.index
    req_events,         \* self._req_events: idx -> is the Event set
    res,                \* self._res: idx -> decoded RESPONSE
    sent,               \* requests written to the socket
    nframes,            \* frames received from the peer so far
    recv_msg,           \* dispatch_msg: msg, the frame received last
    dispatch_pc,        \* dispatch_msg: "idle", "recv", "await_notify", "exited"
    process_pc,         \* process: "idle", "get", "exited"
    queue,              \* self.queue: handler coroutines not yet started
    tasks,              \* the tasks made by process, in creation order
    calls,              \* the rpc_call / check_alive invocations, in order
    friends,            \* self.friends
    friend_apply_list,  \* self.friend_apply_list
    game_record,        \* the file game_record.json
    emitted,            \* messages handed to send_meta / send_msg_to_user
    log,                \* warnings and errors logged
    login,              \* accessTokenLogin: where it is, what it has done
    mconn,              \* MajsoulManager.conn: the sessions held, by number
    sessions,           \* every session created so far, by number
    mcall,              \* the start() / restart() invocation under way
    cookies,            \* MajsUser.get_all_cookie(): stored access tokens
    fetch               \* fetchLogs: the record it was given, its action_list

connVars == <<ws, index, req_events, res, sent, nframes, recv_msg, dispatch_pc>>
workVars == <<process_pc, queue, tasks>>
socialVars == <<friends, friend_apply_list, game_record>>
mgrVars == <<login, mconn, sessions, mcall, cookies, fetch>>
vars == <<connVars, workVars, calls, socialVars, emitted, log, mgrVars>>

NoPayload == [reply_to |-> 0, code |-> 0, players |-> <<>>]
NoData == [msg_type |-> 0, req_index |-> 0, method_name |-> "", payload |-> NoPayload]
NoMsg == <<>>
NoFrame == <<>>
TextFrame == <<0, 0, "", NoPayload>>
NoLogin == [pc |-> "idle", call |-> 0, checks |-> 0, slept |-> 0, account_id |-> 0]
NoCall == [op |-> "none", pc |-> "idle", i |-> 0, old |-> <<>>, snap |-> <<>>, n |-> 0]

NoFetch == [pc |-> "idle", payload |-> [version |-> 0, records |-> <<>>, actions |-> <<>>],
            action_list |-> <<>>]

\* No manager and no login at work: the state of one connection alone.
MgrIdle ==
    /\ login = NoLogin
    /\ mconn = <<>>
    /\ sessions = <<>>
    /\ mcall = NoCall
    /\ cookies = 0
    /\ fetch = NoFetch

Put(f, k, v) == [x \in DOMAIN f \cup {k} |-> IF x = k THEN v ELSE f[x]]
Del(f, k) == [x \in DOMAIN f \ {k} |-> f[x]]

(***************************************************************************)
(* Codec, from the specification (section 4.1, section 6).                 *)
(***************************************************************************)
\* encode_request: the request carries the current index, which then grows.
encode_request(i, method_name) ==
    [bytes |-> <<REQUEST, i, method_name, NoPayload>>, index |-> i + 1]

\* decode_message: the tag selects the kind; REQUEST/RESPONSE carry the index,
\* REQUEST/NOTIFY the method name.
decode_message(msg) ==
    [msg_type |-> msg[1],
     req_index |-> IF msg[1] \in {REQUEST, RESPONSE} THEN msg[2] ELSE 0,
     method_name |-> IF msg[1] \in {REQUEST, NOTIFY} THEN msg[3] ELSE "",
     payload |-> msg[4]]

\* dispatch_msg: data, the message decoded from the frame received last.
data == IF recv_msg \in {NoFrame, TextFrame} THEN NoData ELSE decode_message(recv_msg)

(***************************************************************************)
(* rpc_call, up to "await evt.wait()".  self._ws.send on a closed socket   *)
(* raises websockets' ConnectionClosed; the Event is registered before.    *)
(***************************************************************************)
rpc_call(owner, method_name) ==
    LET idx == index IN
    IF ws = "None"
    THEN [call |-> [owner |-> owner, via |-> "rpc_call", idx |-> idx, pc |-> "failed",
                    err |-> "ConnectionError", ret |-> NoPayload, alive |-> "none"],
          index |-> index, req_events |-> req_events, sent |-> sent]
    ELSE LET req == encode_request(index, method_name) IN
         IF ws = "closed"
         THEN [call |-> [owner |-> owner, via |-> "rpc_call", idx |-> idx, pc |-> "failed",
                         err |-> "ConnectionClosed", ret |-> NoPayload, alive |-> "none"],
               index |-> req.index, req_events |-> Put(req_events, idx, FALSE),
               sent |-> sent]
         ELSE [call |-> [owner |-> owner, via |-> "rpc_call", idx |-> idx, pc |-> "waiting",
                         err |-> "", ret |-> NoPayload, alive |-> "none"],
               index |-> req.index, req_events |-> Put(req_events, idx, FALSE),
               sent |-> sent \cup {req.bytes}]

\* The Event of call c is set.
Resolved(c) ==
    /\ calls[c].pc = "waiting"
    /\ calls[c].idx \in DOMAIN req_events
    /\ req_events[calls[c].idx]

\* rpc_call, after evt.wait(): take the response out of both tables.
rpc_call_return(c) ==
    LET idx == calls[c].idx IN
    IF idx \in DOMAIN res
    THEN [call |-> [calls[c] EXCEPT !.pc = "done", !.ret = res[idx].payload],
          res |-> Del(res, idx),
          req_events |-> Del(req_events, idx)]
    ELSE [call |-> [calls[c] EXCEPT !.pc = "failed", !.err = "KeyError"],
          res |-> res,
          req_events |-> req_events]

UserCalls == {c \in 1..Len(calls) : calls[c].owner = 0}

\* A caller outside the notification handlers starts rpc_call.
UserCall ==
    /\ UNCHANGED mgrVars
    /\ Cardinality(UserCalls) < MaxUserCalls
    /\ LET r == rpc_call(0, ".lq.Lobby.fetchServerTime") IN
        /\ calls' = Append(calls, r.call)
        /\ index' = r.index
        /\ req_events' = r.req_events
        /\ sent' = r.sent
    /\ UNCHANGED <<ws, res, nframes, recv_msg, dispatch_pc, workVars, socialVars,
                   emitted, log>>

\* check_alive, up to the await inside rpc_call.
CheckAlive ==
    /\ UNCHANGED mgrVars
    /\ Cardinality(UserCalls) < MaxUserCalls
    /\ IF ws = "None"
       THEN /\ calls' = Append(calls, [owner |-> 0, via |-> "check_alive", idx |-> 0,
                                       pc |-> "done", err |-> "", ret |-> NoPayload,
                                       alive |-> "false"])
            /\ UNCHANGED <<index, req_events, sent>>
       ELSE LET r == rpc_call(0, ".lq.Lobby.heatbeat") IN
            /\ calls' = Append(calls, [r.call EXCEPT !.via = "check_alive"])
            /\ index' = r.index
            /\ req_events' = r.req_events
            /\ sent' = r.sent
    /\ UNCHANGED <<ws, res, nframes, recv_msg, dispatch_pc, workVars, socialVars,
                   emitted, log>>

\* The caller is woken: rpc_call returns the payload; check_alive reads error.code.
UserReturn(c) ==
    /\ UNCHANGED mgrVars
    /\ c \in UserCalls
    /\ Resolved(c)
    /\ LET r == rpc_call_return(c) IN
        /\ calls' = [calls EXCEPT ![c] =
                        IF r.call.via = "check_alive" /\ r.call.pc = "done"
                        THEN [r.call EXCEPT !.alive =
                                 IF r.call.ret.code # 0 THEN "false" ELSE "true"]
                        ELSE r.call]
        /\ res' = r.res
        /\ req_events' = r.req_events
    /\ UNCHANGED <<ws, index, sent, nframes, recv_msg, dispatch_pc, workVars,
                   socialVars, emitted, log>>

(***************************************************************************)
(* The transport.                                                          *)
(***************************************************************************)
\* connect: open the socket, start start_sv (process and dispatch_msg).
Connect ==
    /\ UNCHANGED mgrVars
    /\ ws = "None"
    /\ ws' = "open"
    /\ dispatch_pc' = "recv"
    /\ process_pc' = "get"
    /\ UNCHANGED <<index, req_events, res, sent, nframes, recv_msg, queue, tasks,
                   calls, socialVars, emitted, log>>

\* The socket closes: the peer, the network, or restart's self._ws.close().
TransportClose ==
    /\ UNCHANGED mgrVars
    /\ ws = "open"
    /\ ws' = "closed"
    /\ UNCHANGED <<index, req_events, res, sent, nframes, recv_msg, dispatch_pc,
                   workVars, calls, socialVars, emitted, log>>

(***************************************************************************)
(* handle_notify: the handler coroutine is put on self.queue, not awaited. *)
(***************************************************************************)
HandledMethods ==
    {".lq.NotifyFriendStateChange", ".lq.NotifyFriendViewChange",
     ".lq.NotifyNewFriendApply", ".lq.NotifyFriendChange", ".lq.NotifyAnotherLogin"}

\* Variant: the loop awaits the handler itself instead of queueing it.
handle_notify_inline(q, lg, notify) ==
    IF notify.method_name \in HandledMethods
    THEN [queue |-> Append(q, [kind |-> notify.method_name, arg |-> notify.payload]),
          log |-> lg, suspends |-> TRUE]
    ELSE [queue |-> q, log |-> lg \cup {<<"warning", "unknown notify">>},
          suspends |-> FALSE]

\* Variant: every NOTIFY is queued, handled method or not.
handle_notify_any(q, lg, notify) ==
    [queue |-> Append(q, [kind |-> notify.method_name, arg |-> notify.payload]),
     log |-> lg, suspends |-> FALSE]

handle_notify(q, lg, notify) ==
    IF notify.method_name \in HandledMethods
    THEN [queue |-> Append(q, [kind |-> notify.method_name, arg |-> notify.payload]),
          log |-> lg, suspends |-> FALSE]
    ELSE [queue |-> q, log |-> lg \cup {<<"warning", "unknown notify">>},
          suspends |-> FALSE]

(***************************************************************************)
(* dispatch_msg: one turn of the loop; self._ws.recv() returns the frame   *)
(* msg that the peer sent.                                                 *)
(***************************************************************************)
\* Variant: a RESPONSE is stored whether or not its index is registered.
dispatch_response_any(d) ==
    [res |-> Put(res, d.req_index, d),
     req_events |-> Put(req_events, d.req_index, TRUE)]

\* Variant: a RESPONSE is handed to the oldest waiter, not the addressed one.
dispatch_response_first(d) ==
    IF d.req_index \notin DOMAIN req_events
    THEN [res |-> res, req_events |-> req_events]
    ELSE LET k == CHOOSE j \in DOMAIN req_events : \A i \in DOMAIN req_events : j <= i
         IN  [res |-> Put(res, k, d), req_events |-> Put(req_events, k, TRUE)]

dispatch_response(d) ==
    IF d.req_index \notin DOMAIN req_events
    THEN [res |-> res, req_events |-> req_events]
    ELSE [res |-> Put(res, d.req_index, d),
          req_events |-> Put(req_events, d.req_index, TRUE)]

\* The frames the peer may send: a login takes up to four responses.
FrameLimit == IF login.pc = "idle" THEN MaxFrames ELSE MaxLoginFrames

DispatchMsg(msg) ==
    /\ UNCHANGED mgrVars
    /\ dispatch_pc = "recv"
    /\ ws = "open"
    /\ nframes < FrameLimit
    /\ msg[1] = NOTIFY => Len(queue) + Len(tasks) < MaxNotify
    /\ nframes' = nframes + 1
    /\ recv_msg' = msg
    /\ IF msg = TextFrame
       THEN \* assert isinstance(msg, bytes)
            /\ dispatch_pc' = "exited"
            /\ UNCHANGED <<res, req_events, queue, log>>
       ELSE LET d == decode_message(msg) IN
            /\ IF d.msg_type = RESPONSE
               THEN LET r == dispatch_response(d) IN
                    /\ res' = r.res
                    /\ req_events' = r.req_events
                    /\ UNCHANGED <<queue, log, dispatch_pc>>
               ELSE IF d.msg_type = NOTIFY
               THEN LET r == handle_notify(queue, log, d) IN
                    /\ queue' = r.queue
                    /\ log' = r.log
                    /\ dispatch_pc' = IF r.suspends THEN "await_notify" ELSE "recv"
                    /\ UNCHANGED <<res, req_events>>
               ELSE UNCHANGED <<res, req_events, queue, log, dispatch_pc>>
    /\ UNCHANGED <<ws, index, sent, process_pc, tasks, calls, socialVars, emitted>>

\* self._ws.recv() raises on the closed socket: the loop ends, nothing else is done.
DispatchExit ==
    /\ UNCHANGED mgrVars
    /\ dispatch_pc = "recv"
    /\ ws = "closed"
    /\ dispatch_pc' = "exited"
    /\ UNCHANGED <<ws, index, req_events, res, sent, nframes, recv_msg, workVars,
                   calls, socialVars, emitted, log>>

(***************************************************************************)
(* process: take a coroutine from the queue and make it a task of its own. *)
(***************************************************************************)
\* Variant: process() awaits the handler it has just started.
create_task_awaited(coro) ==
    [kind |-> coro.kind, arg |-> coro.arg, pc |-> "created", msg |-> NoMsg,
     call |-> 0, awaited |-> TRUE]

create_task(coro) ==
    [kind |-> coro.kind, arg |-> coro.arg, pc |-> "created", msg |-> NoMsg,
     call |-> 0, awaited |-> FALSE]

Finished(h) == tasks[h].pc \in {"done", "failed"}

Process ==
    /\ UNCHANGED mgrVars
    /\ process_pc = "get"
    /\ queue # <<>>
    /\ \A h \in 1..Len(tasks) : tasks[h].awaited => Finished(h)
    /\ tasks' = Append(tasks, create_task(Head(queue)))
    /\ queue' = Tail(queue)
    /\ UNCHANGED <<connVars, process_pc, calls, socialVars, emitted, log>>

\* A task starts when the tasks made before it have run to their first await.
CanStart(h, kind) ==
    /\ h \in 1..Len(tasks)
    /\ tasks[h].kind = kind
    /\ tasks[h].pc = "created"
    /\ \A k \in 1..(h - 1) : tasks[k].pc # "created"

\* Where an exception raised in task h goes: to the task awaiting it, if any.
RaiseIn(h) == IF tasks[h].awaited THEN "exited" ELSE process_pc

(***************************************************************************)
(* Delivery of a message (send_meta, send_msg_to_user) is the collaborator *)
(* interface: the message is handed over when the await completes.         *)
(***************************************************************************)
Emit(h, sink, to) == Append(emitted, [task |-> h, sink |-> sink, to |-> to, msg |-> tasks[h].msg])

\* handle_AnotherLogin, up to "await self.send_meta".
AnotherLogin(h) ==
    /\ UNCHANGED mgrVars
    /\ CanStart(h, ".lq.NotifyAnotherLogin")
    /\ tasks' = [tasks EXCEPT ![h].pc = "await_send", ![h].msg = <<"another_login">>]
    /\ UNCHANGED <<connVars, process_pc, queue, calls, socialVars, emitted, log>>

\* The await of send_meta / send_msg_to_user that ends a handler completes.
SendDone(h) ==
    /\ UNCHANGED mgrVars
    /\ h \in 1..Len(tasks)
    /\ tasks[h].kind # ".lq.NotifyNewFriendApply"
    /\ tasks[h].pc = "await_send"
    /\ emitted' = Emit(h, IF tasks[h].kind = ".lq.NotifyFriendStateChange"
                             \/ tasks[h].kind = ".lq.NotifyFriendViewChange"
                          THEN "user" ELSE "meta",
                       IF tasks[h].kind = ".lq.NotifyFriendStateChange"
                             \/ tasks[h].kind = ".lq.NotifyFriendViewChange"
                          THEN tasks[h].arg.target_id ELSE 0)
    /\ tasks' = [tasks EXCEPT ![h].pc = "done"]
    /\ UNCHANGED <<connVars, process_pc, queue, calls, socialVars, log>>

(***************************************************************************)
(* handle_NewFriendApply and acceptFriendApply.                            *)
(***************************************************************************)
RemoveFirst(s, x) ==
    IF \E k \in 1..Len(s) : s[k] = x
    THEN LET k == CHOOSE j \in 1..Len(s) : s[j] = x /\ \A i \in 1..(j - 1) : s[i] # x
         IN  SubSeq(s, 1, k - 1) \o SubSeq(s, k + 1, Len(s))
    ELSE s

InSeq(s, x) == \E k \in 1..Len(s) : s[k] = x

\* Up to the await inside rpc_call('.lq.Lobby.fetchMultiAccountBrief').
NewFriendApply(h) ==
    /\ UNCHANGED mgrVars
    /\ CanStart(h, ".lq.NotifyNewFriendApply")
    /\ friend_apply_list' = Append(friend_apply_list, tasks[h].arg.account_id)
    /\ LET r == rpc_call(h, ".lq.Lobby.fetchMultiAccountBrief") IN
        /\ calls' = Append(calls, r.call)
        /\ index' = r.index
        /\ req_events' = r.req_events
        /\ sent' = r.sent
        /\ IF r.call.pc = "failed"
           THEN /\ tasks' = [tasks EXCEPT ![h].pc = "failed"]
                /\ process_pc' = RaiseIn(h)
           ELSE /\ tasks' = [tasks EXCEPT ![h].pc = "await_rpc", ![h].call = Len(calls) + 1]
                /\ UNCHANGED process_pc
    /\ UNCHANGED <<ws, res, nframes, recv_msg, dispatch_pc, queue, friends,
                   game_record, emitted, log>>

\* From the return of rpc_call to "await self.send_meta".
NewFriendApplyResume(h) ==
    /\ UNCHANGED mgrVars
    /\ h \in 1..Len(tasks)
    /\ tasks[h].pc = "await_rpc"
    /\ Resolved(tasks[h].call)
    /\ LET r == rpc_call_return(tasks[h].call)
           resp == r.call.ret
           account_id == tasks[h].arg.account_id
       IN
        /\ calls' = [calls EXCEPT ![tasks[h].call] = r.call]
        /\ res' = r.res
        /\ req_events' = r.req_events
        /\ IF r.call.pc = "failed" \/ (resp.code = 0 /\ resp.players = <<>>)
           THEN \* KeyError in rpc_call, IndexError at resp.players[0]
                /\ tasks' = [tasks EXCEPT ![h].pc = "failed"]
                /\ process_pc' = RaiseIn(h)
                /\ UNCHANGED <<friend_apply_list, log>>
           ELSE IF resp.code # 0
           THEN /\ tasks' = [tasks EXCEPT ![h].pc = "await_send",
                                          ![h].msg = <<"apply_error", account_id>>]
                /\ log' = log \cup {<<"error", "NotifyNewFriendApply">>}
                /\ UNCHANGED <<friend_apply_list, process_pc>>
           ELSE /\ tasks' = [tasks EXCEPT ![h].pc = "await_send",
                                          ![h].msg = <<"apply", resp.players[1]>>]
                /\ friend_apply_list' =
                       IF InSeq(friend_apply_list, account_id)
                       THEN friend_apply_list
                       ELSE Append(friend_apply_list, account_id)
                /\ UNCHANGED <<log, process_pc>>
    /\ UNCHANGED <<ws, index, sent, nframes, recv_msg, dispatch_pc, queue, friends,
                   game_record, emitted>>

\* send_meta is done; MajsIsAutoApplyFriend decides on acceptFriendApply, which
\* runs up to the await inside rpc_call('.lq.Lobby.handleFriendApply').
NewFriendApplySent(h) ==
    /\ UNCHANGED mgrVars
    /\ h \in 1..Len(tasks)
    /\ tasks[h].kind = ".lq.NotifyNewFriendApply"
    /\ tasks[h].pc = "await_send"
    /\ emitted' = Emit(h, "meta", 0)
    /\ \E MajsIsAutoApplyFriend \in BOOLEAN :
        IF MajsIsAutoApplyFriend
        THEN LET r == rpc_call(h, ".lq.Lobby.handleFriendApply") IN
             /\ calls' = Append(calls, r.call)
             /\ index' = r.index
             /\ req_events' = r.req_events
             /\ sent' = r.sent
             /\ IF r.call.pc = "failed"
                THEN /\ tasks' = [tasks EXCEPT ![h].pc = "failed"]
                     /\ process_pc' = RaiseIn(h)
                ELSE /\ tasks' = [tasks EXCEPT ![h].pc = "await_accept",
                                               ![h].call = Len(calls) + 1]
                     /\ UNCHANGED process_pc
        ELSE /\ tasks' = [tasks EXCEPT ![h].pc = "done"]
             /\ UNCHANGED <<calls, index, req_events, sent, process_pc>>
    /\ UNCHANGED <<ws, res, nframes, recv_msg, dispatch_pc, queue, socialVars, log>>

\* acceptFriendApply, after rpc_call returns.
AcceptResume(h) ==
    /\ UNCHANGED mgrVars
    /\ h \in 1..Len(tasks)
    /\ tasks[h].pc = "await_accept"
    /\ Resolved(tasks[h].call)
    /\ LET r == rpc_call_return(tasks[h].call) IN
        /\ calls' = [calls EXCEPT ![tasks[h].call] = r.call]
        /\ res' = r.res
        /\ req_events' = r.req_events
        /\ IF r.call.pc = "failed"
           THEN /\ tasks' = [tasks EXCEPT ![h].pc = "failed"]
                /\ process_pc' = RaiseIn(h)
                /\ UNCHANGED friend_apply_list
           ELSE /\ tasks' = [tasks EXCEPT ![h].pc = "done"]
                /\ friend_apply_list' = RemoveFirst(friend_apply_list, tasks[h].arg.account_id)
                /\ UNCHANGED process_pc
    /\ UNCHANGED <<ws, index, sent, nframes, recv_msg, dispatch_pc, queue, friends,
                   game_record, emitted, log>>

(***************************************************************************)
(* The friend registry.  MajsoulFriend (majs_notify/majsoul_friend.py) is  *)
(* not among the sources: a Friend holds the account id, the nickname, the *)
(* activity snapshot (is_online, playing) and the two ranks; change_state  *)
(* replaces the snapshot.  A playing message with every field at its       *)
(* default is the absent match descriptor, and is falsy.                   *)
(***************************************************************************)
NoMatch == [game_uuid |-> "", category |-> 0, mode_id |-> 0]
NoLevel == [id |-> 0, score |-> 0]

MajsoulFriend(account_id, nickname, state) ==
    [account_id |-> account_id, nickname |-> nickname,
     is_online |-> state.is_online, playing |-> state.playing,
     level |-> NoLevel, level3 |-> NoLevel]

change_state(friend, active_state) ==
    [friend EXCEPT !.is_online = active_state.is_online,
                   !.playing = active_state.playing]

Truthy(playing) == playing # NoMatch

(***************************************************************************)
(* handle_FriendStateChange.                                               *)
(***************************************************************************)
\* Variant: the online flag is reported as it is, not on a change.
online_msg_level(msg, friend, active_state) ==
    IF active_state.is_online
    THEN <<"online", friend.nickname>>
    ELSE <<"offline", friend.nickname>>

\* Lines 161-164: the online flag against the stored one.
online_msg(msg, friend, active_state) ==
    IF active_state.is_online /\ ~friend.is_online
    THEN <<"online", friend.nickname>>
    ELSE IF ~active_state.is_online /\ friend.is_online
    THEN <<"offline", friend.nickname>>
    ELSE msg

\* Variant: every handler starts from an empty map.
load_game_record_fresh(file) == <<>>

\* Lines 166-172: a missing or unparsable file reads as the empty map.
load_game_record(file) == IF file.state = "ok" THEN file.map ELSE <<>>

\* Lines 179-186: the category of the match that started.
category_name(category) ==
    IF category = 1 THEN "casual"
    ELSE IF category = 2 THEN "ranked"
    ELSE IF category = 4 THEN "tournament"
    ELSE "unknown"

\* The body of the loop for one friend of self.friends; st carries the
\* registry, the file, msg, and whether an exception has ended the handler.
friend_state_body(st, k, data_) ==
    LET friend == st.friends[k]
        active_state == data_.active_state
        msg1 == online_msg(st.msg, friend, active_state)
        game_record1 == load_game_record(st.file)
        active_uuid == active_state.playing.game_uuid
    IN
    IF friend.account_id # data_.target_id
    THEN st
    ELSE IF active_uuid # "" /\ friend.playing.game_uuid = ""
    THEN [friends |-> [st.friends EXCEPT ![k] = change_state(friend, active_state)],
          file |-> [state |-> "ok",
                    map |-> Put(game_record1, active_uuid, friend.account_id)],
          msg |-> <<"start", friend.nickname,
                    category_name(active_state.playing.category),
                    active_state.playing.mode_id, active_uuid>>,
          failed |-> FALSE]
    ELSE IF ~Truthy(active_state.playing) /\ Truthy(friend.playing)
    THEN IF st.file.state # "ok"
         THEN \* line 195-196: the second open / json.load raises
              [st EXCEPT !.failed = TRUE]
         ELSE [friends |-> [st.friends EXCEPT ![k] = change_state(friend, active_state)],
               file |-> [state |-> "ok",
                         map |-> Put(st.file.map, friend.playing.game_uuid,
                                     friend.account_id)],
               msg |-> <<"end", friend.nickname, friend.playing.mode_id,
                         friend.playing.game_uuid, friend.account_id>>,
               failed |-> FALSE]
    ELSE [friends |-> [st.friends EXCEPT ![k] = change_state(friend, active_state)],
          file |-> [state |-> "ok", map |-> game_record1],
          msg |-> msg1,
          failed |-> FALSE]

RECURSIVE friend_state_loop(_, _, _)
friend_state_loop(st, k, data_) ==
    IF k > Len(st.friends) \/ st.failed
    THEN st
    ELSE friend_state_loop(friend_state_body(st, k, data_), k + 1, data_)

handle_FriendStateChange(data_) ==
    friend_state_loop([friends |-> friends, file |-> game_record, msg |-> NoMsg,
                       failed |-> FALSE], 1, data_)

\* The handler, up to "await self.send_msg_to_user" or to its end.
FriendStateChange(h) ==
    /\ UNCHANGED mgrVars
    /\ CanStart(h, ".lq.NotifyFriendStateChange")
    /\ LET st == handle_FriendStateChange(tasks[h].arg) IN
        /\ friends' = st.friends
        /\ game_record' = st.file
        /\ IF st.failed
           THEN /\ tasks' = [tasks EXCEPT ![h].pc = "failed"]
                /\ process_pc' = RaiseIn(h)
           ELSE /\ tasks' = [tasks EXCEPT ![h].pc = IF st.msg # NoMsg THEN "await_send"
                                                    ELSE "done",
                                          ![h].msg = st.msg]
                /\ UNCHANGED process_pc
    /\ UNCHANGED <<connVars, queue, calls, friend_apply_list, emitted, log>>

(***************************************************************************)
(* handle_FriendViewChange.  msg is the text built so far, as the sequence *)
(* of its parts; PlayerLevel's tags are kept as the (id, score) they are   *)
(* made from.  change_base (majsoul_friend.py, not among the sources)      *)
(* stores the two ranks of the notification.                               *)
(***************************************************************************)
change_base(friend, changed_base) ==
    [friend EXCEPT !.level = changed_base.level, !.level3 = changed_base.level3]

\* Lines 244-250, 256-261: the signed difference, as "up" or "down" and amount.
score_change(new, old) == IF new >= old THEN <<"up", new - old>> ELSE <<"down", old - new>>

\* Lines 222-261 for one friend: the message for the change of its ranks.
view_msg(friend, changed_base) ==
    LET changed_level == changed_base.level.id
        changed_level3 == changed_base.level3.id
        changed_score == changed_base.level.score
        changed_score3 == changed_base.level3.score
        msg0 == <<>>
        \* line 230: msg = ...
        msg1 == IF changed_level # friend.level.id
                THEN << <<"tier4", changed_level, changed_score>> >>
                ELSE msg0
        \* line 235: msg = ..., not msg += ...
        msg2 == IF changed_level3 # friend.level3.id
                THEN << <<"tier3", changed_level3, changed_score3>> >>
                ELSE msg1
    IN
    IF changed_score # friend.level.score
    THEN Append(msg2, <<"score4", changed_level, changed_score>>
                         \o score_change(changed_score, friend.level.score))
    ELSE IF changed_score3 # friend.level3.score
    THEN Append(msg2, <<"score3", changed_level3, changed_score3>>
                         \o score_change(changed_score3, friend.level3.score))
    ELSE msg2

RECURSIVE friend_view_loop(_, _, _)
friend_view_loop(st, k, data_) ==
    IF k > Len(st.friends)
    THEN st
    ELSE IF st.friends[k].account_id # data_.target_id
    THEN friend_view_loop(st, k + 1, data_)
    ELSE friend_view_loop(
             [friends |-> [st.friends EXCEPT ![k] = change_base(st.friends[k], data_.base)],
              msg |-> view_msg(st.friends[k], data_.base)],
             k + 1, data_)

handle_FriendViewChange(data_) ==
    friend_view_loop([friends |-> friends, msg |-> NoMsg], 1, data_)

\* The handler, up to "await self.send_msg_to_user" or to its end.
FriendViewChange(h) ==
    /\ UNCHANGED mgrVars
    /\ CanStart(h, ".lq.NotifyFriendViewChange")
    /\ LET st == handle_FriendViewChange(tasks[h].arg) IN
        /\ friends' = st.friends
        /\ tasks' = [tasks EXCEPT ![h].pc = IF st.msg # NoMsg THEN "await_send" ELSE "done",
                                  ![h].msg = st.msg]
    /\ UNCHANGED <<connVars, process_pc, queue, calls, friend_apply_list, game_record,
                   emitted, log>>

(***************************************************************************)
(* handle_FriendChange.  data.friend is the friend record carried by the   *)
(* notification, data.account_id the account the change is about.          *)
(***************************************************************************)
\* The index of the first friend with the account id, 0 when there is none.
FirstFriend(fs, account_id) ==
    IF \E k \in 1..Len(fs) : fs[k].account_id = account_id
    THEN CHOOSE k \in 1..Len(fs) :
             /\ fs[k].account_id = account_id
             /\ \A i \in 1..(k - 1) : fs[i].account_id # account_id
    ELSE 0

RemoveAt(s, k) == SubSeq(s, 1, k - 1) \o SubSeq(s, k + 1, Len(s))

handle_FriendChange(data_) ==
    LET k == FirstFriend(friends, data_.account_id)
        friend == MajsoulFriend(data_.friend.account_id, data_.friend.nickname,
                                data_.friend.state)
    IN
    IF data_.type = 1
    THEN \* lines 274-284: the loop has no break, so its else clause always runs
         [friends |-> Append(friends, friend),
          friend_apply_list |-> RemoveFirst(friend_apply_list, data_.account_id),
          msg |-> <<"added", friend.nickname>>,
          log |-> IF k # 0 THEN log \cup {<<"error", "already a friend">>} ELSE log]
    ELSE IF data_.type = 2
    THEN \* lines 287-291: the first match is removed
         IF k # 0
         THEN [friends |-> RemoveAt(friends, k),
               friend_apply_list |-> friend_apply_list,
               msg |-> <<"removed", friends[k].nickname>>,
               log |-> log]
         ELSE [friends |-> friends, friend_apply_list |-> friend_apply_list,
               msg |-> NoMsg, log |-> log]
    ELSE \* lines 294-297: the new MajsoulFriend is bound to the loop variable only
         [friends |-> friends, friend_apply_list |-> friend_apply_list,
          msg |-> IF k # 0 THEN <<"updated", friend.nickname>> ELSE NoMsg,
          log |-> log]

\* The handler, up to "await self.send_meta" or to its end.
FriendChange(h) ==
    /\ UNCHANGED mgrVars
    /\ CanStart(h, ".lq.NotifyFriendChange")
    /\ LET r == handle_FriendChange(tasks[h].arg) IN
        /\ friends' = r.friends
        /\ friend_apply_list' = r.friend_apply_list
        /\ log' = r.log
        /\ tasks' = [tasks EXCEPT ![h].pc = IF r.msg # NoMsg THEN "await_send" ELSE "done",
                                  ![h].msg = r.msg]
    /\ UNCHANGED <<connVars, process_pc, queue, calls, game_record, emitted>>

(***************************************************************************)
(* accessTokenLogin: oauth2Check, once more after a pause if no account is *)
(* linked yet, then oauth2Login and loginBeat.  The responses carry        *)
(* has_account (ResOauth2Check), account_id (ResLogin), error.code.        *)
(***************************************************************************)
\* Variant: the check is repeated as long as no account is reported.
check_again_always(resp, checks) == ~resp.has_account

\* Lines 402-403: only the first check is followed by a pause and a retry.
check_again(resp, checks) == ~resp.has_account /\ checks = 1

\* The first rpc_call('.lq.Lobby.oauth2Check'), up to its await.
AccessTokenLogin ==
    /\ login.pc = "idle"
    /\ LET q == rpc_call(0, ".lq.Lobby.oauth2Check") IN
        /\ calls' = Append(calls, q.call)
        /\ index' = q.index
        /\ req_events' = q.req_events
        /\ sent' = q.sent
        /\ login' = [login EXCEPT !.pc = IF q.call.pc = "failed" THEN "raised" ELSE "check",
                                  !.call = Len(calls) + 1,
                                  !.checks = 1]
    /\ UNCHANGED <<ws, res, nframes, recv_msg, dispatch_pc, workVars, socialVars,
                   emitted, log, fetch, mconn, sessions, mcall, cookies>>

\* asyncio.sleep(2) is over: the second rpc_call('.lq.Lobby.oauth2Check').
LoginWake ==
    /\ login.pc = "sleep"
    /\ LET q == rpc_call(0, ".lq.Lobby.oauth2Check") IN
        /\ calls' = Append(calls, q.call)
        /\ index' = q.index
        /\ req_events' = q.req_events
        /\ sent' = q.sent
        /\ login' = [login EXCEPT !.pc = IF q.call.pc = "failed" THEN "raised" ELSE "check",
                                  !.call = Len(calls) + 1,
                                  !.checks = login.checks + 1,
                                  !.slept = login.slept + 1]
    /\ UNCHANGED <<ws, res, nframes, recv_msg, dispatch_pc, workVars, socialVars,
                   emitted, log, fetch, mconn, sessions, mcall, cookies>>

\* What accessTokenLogin does with the response it was waiting for: "sleep",
\* "raise", "ready", or the method of the rpc_call it makes next.
login_next(pc, resp, checks) ==
    IF pc = "check"
    THEN IF check_again(resp, checks) THEN "sleep"
         ELSE IF ~resp.has_account THEN "raise"
         ELSE ".lq.Lobby.oauth2Login"
    ELSE IF pc = "login"
    THEN IF resp.account_id = 0 THEN "raise" ELSE ".lq.Lobby.loginBeat"
    ELSE IF resp.code # 0 THEN "raise" ELSE "ready"

\* An rpc_call of accessTokenLogin returns; the code runs to the next await.
LoginResume ==
    /\ login.pc \in {"check", "login", "beat"}
    /\ Resolved(login.call)
    /\ LET r == rpc_call_return(login.call)
           resp == r.call.ret
           next == IF r.call.pc = "failed" THEN "raise"
                   ELSE login_next(login.pc, resp, login.checks)
           q == rpc_call(0, next)
       IN
        IF next \in {"sleep", "raise", "ready"}
        THEN /\ calls' = [calls EXCEPT ![login.call] = r.call]
             /\ res' = r.res
             /\ req_events' = r.req_events
             /\ login' = [login EXCEPT !.pc = IF next = "raise" THEN "raised" ELSE next]
             /\ UNCHANGED <<index, sent>>
        ELSE /\ calls' = Append([calls EXCEPT ![login.call] = r.call], q.call)
             /\ res' = r.res
             /\ req_events' = Del(q.req_events, calls[login.call].idx)
             /\ index' = q.index
             /\ sent' = q.sent
             /\ login' = [login EXCEPT
                             !.pc = IF q.call.pc = "failed" THEN "raised"
                                    ELSE IF next = ".lq.Lobby.oauth2Login" THEN "login"
                                    ELSE "beat",
                             !.call = Len(calls) + 1,
                             !.account_id = IF login.pc = "login" THEN resp.account_id
                                            ELSE login.account_id]
    /\ UNCHANGED <<ws, nframes, recv_msg, dispatch_pc, workVars, socialVars,
                   emitted, log, fetch, mconn, sessions, mcall, cookies>>

(***************************************************************************)
(* MajsoulManager.  A session is what createMajsoulConnection leaves       *)
(* behind: the socket, the heartbeat task (the only entry of bg_tasks),    *)
(* and start_sv's dispatch_msg and process, which no list holds.  mcall is *)
(* the start() / restart() invocation under way: old and snap are          *)
(* self.conn and the sessions as the invocation found them.                *)
(***************************************************************************)
NewSession == [ws |-> "open", heartbeat |-> "sleep", dispatch_pc |-> "recv",
               process_pc |-> "get", fetched |-> 0]

\* Variant: start() builds sessions whether or not it holds some.
start_needed_always(conn) == TRUE

\* Line 644.
start_needed(conn) == Len(conn) = 0

\* Lines 659-661: the tasks of bg_tasks of the first session are cancelled.
cancel_bg_tasks(ss, conn) ==
    [ss EXCEPT ![conn[1]].heartbeat =
        IF ss[conn[1]].heartbeat = "sleep" THEN "cancelled" ELSE ss[conn[1]].heartbeat]

\* The body of start() up to its first await, entered with self.conn = conn.
start(conn) == IF start_needed(conn) THEN "cookies" ELSE "done"

NoManagerCall == mcall.pc \in {"idle", "done", "raised"}

\* start() is called.
Start ==
    /\ NoManagerCall
    /\ mcall.n < MaxManagerCalls
    /\ mcall' = [op |-> "start", pc |-> start(mconn), i |-> 0, old |-> mconn,
                 snap |-> sessions, n |-> mcall.n + 1]
    /\ UNCHANGED <<connVars, workVars, calls, socialVars, emitted, log, fetch, login,
                   mconn, sessions, cookies>>

\* MajsUser.get_all_cookie() has returned.
StartCookies ==
    /\ mcall.pc = "cookies"
    /\ mcall' = [mcall EXCEPT !.pc = IF cookies > 0 THEN "create" ELSE "done",
                              !.i = IF cookies > 0 THEN 1 ELSE 0]
    /\ UNCHANGED <<connVars, workVars, calls, socialVars, emitted, log, fetch, login,
                   mconn, sessions, cookies>>

\* createMajsoulConnection(access_token) has returned a connection, which is
\* appended, or has raised; then conn.fetchInfo() is awaited.
CreateConnection ==
    /\ mcall.pc = "create"
    /\ \E ok \in BOOLEAN :
        IF ok
        THEN /\ sessions' = Append(sessions, NewSession)
             /\ mconn' = Append(mconn, Len(sessions) + 1)
             /\ mcall' = [mcall EXCEPT !.pc = "fetch"]
        ELSE /\ mcall' = [mcall EXCEPT !.pc = "raised"]
             /\ UNCHANGED <<sessions, mconn>>
    /\ UNCHANGED <<connVars, workVars, calls, socialVars, emitted, log, fetch, login, cookies>>

\* conn.fetchInfo() has returned, or has raised; the loop goes on.
FetchInfo ==
    /\ mcall.pc = "fetch"
    /\ \E ok \in BOOLEAN :
        IF ok
        THEN /\ sessions' = [sessions EXCEPT ![mconn[Len(mconn)]].fetched = @ + 1]
             /\ mcall' = [mcall EXCEPT !.pc = IF mcall.i < cookies THEN "create" ELSE "done",
                                       !.i = IF mcall.i < cookies THEN mcall.i + 1
                                             ELSE mcall.i]
        ELSE /\ mcall' = [mcall EXCEPT !.pc = "raised"]
             /\ UNCHANGED sessions
    /\ UNCHANGED <<connVars, workVars, calls, socialVars, emitted, log, fetch, login,
                   mconn, cookies>>

\* restart() is called: up to the first "await conn._ws.close()", or, with no
\* session, up to the first await of start().
Restart ==
    /\ NoManagerCall
    /\ mcall.n < MaxManagerCalls
    /\ IF mconn # <<>>
       THEN /\ sessions' = cancel_bg_tasks(sessions, mconn)
            /\ mcall' = [op |-> "restart", pc |-> "close", i |-> 1, old |-> mconn,
                         snap |-> sessions, n |-> mcall.n + 1]
            /\ UNCHANGED mconn
       ELSE /\ mconn' = <<>>
            /\ mcall' = [op |-> "restart", pc |-> start(<<>>), i |-> 0, old |-> mconn,
                         snap |-> sessions, n |-> mcall.n + 1]
            /\ UNCHANGED sessions
    /\ UNCHANGED <<connVars, workVars, calls, socialVars, emitted, log, fetch, login, cookies>>

\* "await conn._ws.close()" of the session at position mcall.i is done; after
\* the last one self.conn is emptied and start() is entered.
RestartClose ==
    /\ mcall.pc = "close"
    /\ sessions' = [sessions EXCEPT ![mconn[mcall.i]].ws = "closed"]
    /\ IF mcall.i < Len(mconn)
       THEN /\ mcall' = [mcall EXCEPT !.i = mcall.i + 1]
            /\ UNCHANGED mconn
       ELSE /\ mconn' = <<>>
            /\ mcall' = [mcall EXCEPT !.pc = start(<<>>), !.i = 0]
    /\ UNCHANGED <<connVars, workVars, calls, socialVars, emitted, log, fetch, login, cookies>>

\* dispatch_msg of session s: recv raises on the closed socket, the loop ends.
\* gather hands the exception to start_sv and leaves process() running.
SessionDispatchExit(s) ==
    /\ sessions[s].ws = "closed"
    /\ sessions[s].dispatch_pc = "recv"
    /\ sessions' = [sessions EXCEPT ![s].dispatch_pc = "exited"]
    /\ UNCHANGED <<connVars, workVars, calls, socialVars, emitted, log, fetch, login,
                   mconn, mcall, cookies>>

\* heartbeat() of session s wakes from its sleep on a closed socket: rpc_call
\* raises in send and the task ends.
SessionHeartbeat(s) ==
    /\ sessions[s].ws = "closed"
    /\ sessions[s].heartbeat = "sleep"
    /\ sessions' = [sessions EXCEPT ![s].heartbeat = "stopped"]
    /\ UNCHANGED <<connVars, workVars, calls, socialVars, emitted, log, fetch, login,
                   mconn, mcall, cookies>>

(***************************************************************************)
(* fetchLogs, after rpc_call('.lq.Lobby.fetchGameRecord') has returned:    *)
(* payload is the GameDetailRecords found inside the two wrappers.  A      *)
(* Wrapper is its name, as the sequence of the parts between the dots, and *)
(* its data; an empty bytes value parses as the empty Wrapper.             *)
(***************************************************************************)
VersionCutoff == 210715

EmptyWrapper == [name |-> <<>>, data |-> 0]

\* Variant: the version alone selects the flat list.
use_records_by_version(payload) == payload.version < VersionCutoff

\* Line 537.
use_records(payload) == payload.version < VersionCutoff /\ Len(payload.records) > 0

\* Line 546: the entries of payload.actions that carry a result.
HasResult(action) == action.result # EmptyWrapper

\* Lines 539-543, 547-551: raw.name.split('.')[2] needs three parts.
CanUnwrap(raw) == Len(raw.name) >= 3

MjsLogItem(raw) == [name |-> raw.name[3], data |-> raw.data]

RECURSIVE unwrap_all(_, _)
unwrap_all(values, acc) ==
    IF values = <<>>
    THEN [failed |-> FALSE, items |-> acc]
    ELSE IF ~CanUnwrap(Head(values))
    THEN [failed |-> TRUE, items |-> <<>>]
    ELSE unwrap_all(Tail(values), Append(acc, MjsLogItem(Head(values))))

Results(actions) ==
    LET chosen == SelectSeq(actions, HasResult)
    IN  [i \in 1..Len(chosen) |-> chosen[i].result]

\* Lines 536-551.
action_list(payload) ==
    IF use_records(payload)
    THEN unwrap_all(payload.records, <<>>)
    ELSE unwrap_all(Results(payload.actions), <<>>)

\* fetchLogs from line 532 on, up to the MjsLog handed to toTenhou.
FetchLogsReturn ==
    /\ fetch.pc = "await"
    /\ LET r == action_list(fetch.payload) IN
        fetch' = [fetch EXCEPT !.pc = IF r.failed THEN "raised" ELSE "done",
                               !.action_list = r.items]
    /\ UNCHANGED <<connVars, workVars, calls, socialVars, emitted, log,
                   login, mconn, sessions, mcall, cookies>>

(***************************************************************************)
(* The connection: construction, then everything the peer and the callers  *)
(* can do.                                                                 *)
(***************************************************************************)
Ok == [code |-> 0, players |-> <<"nick">>]
Err == [code |-> 1, players |-> <<>>]
NoPlayers == [code |-> 0, players |-> <<>>]

\* The RESPONSE frames the peer can send: any index issued so far, or the next.
ResponseFrames(bodies) ==
    {<<RESPONSE, i, "", [reply_to |-> i, code |-> b.code, players |-> b.players]>> :
        i \in FirstIndex..index, b \in bodies}

ApplyPayload == [reply_to |-> 0, code |-> 0, players |-> <<>>, account_id |-> 7]

ConnFrames ==
    ResponseFrames({Ok, Err})
      \cup {<<NOTIFY, 0, ".lq.NotifyAccountUpdate", NoPayload>>,
            <<REQUEST, 0, ".lq.Lobby.heatbeat", NoPayload>>,
            TextFrame}

NotifyFrames ==
    ResponseFrames({Ok, Err, NoPlayers})
      \cup {<<NOTIFY, 0, ".lq.NotifyNewFriendApply", ApplyPayload>>,
            <<NOTIFY, 0, ".lq.NotifyAnotherLogin", NoPayload>>,
            <<NOTIFY, 0, ".lq.NotifyAccountUpdate", NoPayload>>}

Init ==
    /\ ws = "None"
    /\ index = FirstIndex
    /\ req_events = <<>>
    /\ res = <<>>
    /\ sent = {}
    /\ nframes = 0
    /\ recv_msg = NoFrame
    /\ dispatch_pc = "idle"
    /\ process_pc = "idle"
    /\ queue = <<>>
    /\ tasks = <<>>
    /\ calls = <<>>
    /\ friends = <<>>
    /\ friend_apply_list = <<>>
    /\ game_record = [state |-> "missing", map |-> <<>>]
    /\ emitted = <<>>
    /\ log = {}
    /\ MgrIdle

Next ==
    \/ Connect
    \/ TransportClose
    \/ \E msg \in ConnFrames : DispatchMsg(msg)
    \/ DispatchExit
    \/ UserCall
    \/ CheckAlive
    \/ \E c \in 1..Len(calls) : UserReturn(c)

Spec == Init /\ [][Next]_vars

(***************************************************************************)
(* The notification path of a connected session: the dispatch loop, the    *)
(* worker and the handler tasks, beside rpc_call callers.                  *)
(***************************************************************************)
InitConnected ==
    /\ ws = "open"
    /\ index = FirstIndex
    /\ req_events = <<>>
    /\ res = <<>>
    /\ sent = {}
    /\ nframes = 0
    /\ recv_msg = NoFrame
    /\ dispatch_pc = "recv"
    /\ process_pc = "get"
    /\ queue = <<>>
    /\ tasks = <<>>
    /\ calls = <<>>
    /\ friends = <<>>
    /\ friend_apply_list = <<>>
    /\ game_record = [state |-> "missing", map |-> <<>>]
    /\ emitted = <<>>
    /\ log = {}
    /\ MgrIdle

NextNotify ==
    \/ TransportClose
    \/ DispatchExit
    \/ \E msg \in NotifyFrames : DispatchMsg(msg)
    \/ Process
    \/ UserCall
    \/ \E c \in 1..Len(calls) : UserReturn(c)
    \/ \E h \in 1..Len(tasks) : AnotherLogin(h)
    \/ \E h \in 1..Len(tasks) : SendDone(h)
    \/ \E h \in 1..Len(tasks) : NewFriendApply(h)
    \/ \E h \in 1..Len(tasks) : NewFriendApplyResume(h)
    \/ \E h \in 1..Len(tasks) : NewFriendApplySent(h)
    \/ \E h \in 1..Len(tasks) : AcceptResume(h)

SpecNotify == InitConnected /\ [][NextNotify]_vars

(***************************************************************************)
(* The friend registry of a session after start(): the roster is loaded,   *)
(* the peer reports friend state changes.                                  *)
(***************************************************************************)
G1 == [game_uuid |-> "g1", category |-> 2, mode_id |-> 12]
G2 == [game_uuid |-> "g2", category |-> 9, mode_id |-> 0]
Snapshots == {[is_online |-> o, playing |-> p] : o \in BOOLEAN, p \in {NoMatch, G1, G2}}

StateChangeFrames ==
    {<<NOTIFY, 0, ".lq.NotifyFriendStateChange",
       [reply_to |-> 0, code |-> 0, players |-> <<>>, target_id |-> t,
        active_state |-> a]>> : t \in {1, 2}, a \in Snapshots}

InitFriend ==
    /\ ws = "open"
    /\ index = FirstIndex
    /\ req_events = <<>>
    /\ res = <<>>
    /\ sent = {}
    /\ nframes = 0
    /\ recv_msg = NoFrame
    /\ dispatch_pc = "recv"
    /\ process_pc = "get"
    /\ queue = <<>>
    /\ tasks = <<>>
    /\ calls = <<>>
    /\ \E a \in Snapshots : friends = <<MajsoulFriend(1, "nick", a)>>
    /\ friend_apply_list = <<>>
    /\ game_record \in {[state |-> "missing", map |-> <<>>],
                        [state |-> "corrupt", map |-> <<>>],
                        [state |-> "ok", map |-> <<>>],
                        [state |-> "ok", map |-> Put(<<>>, "g1", 9)]}
    /\ emitted = <<>>
    /\ log = {}
    /\ MgrIdle

NextFriend ==
    \/ \E msg \in StateChangeFrames : DispatchMsg(msg)
    \/ Process
    \/ \E h \in 1..Len(tasks) : FriendStateChange(h)
    \/ \E h \in 1..Len(tasks) : SendDone(h)

SpecFriend == InitFriend /\ [][NextFriend]_vars

(***************************************************************************)
(* The roster of a session after start(): one friend is in the registry,   *)
(* the peer reports friend-list changes and new applications.              *)
(***************************************************************************)
Offline == [is_online |-> FALSE, playing |-> NoMatch]

FriendChangeFrames ==
    {<<NOTIFY, 0, ".lq.NotifyFriendChange",
       [reply_to |-> 0, code |-> 0, players |-> <<>>, type |-> t, account_id |-> a,
        friend |-> [account_id |-> a, nickname |-> "renamed", state |-> Offline]]>> :
        t \in {1, 2, 3}, a \in {1, 7}}

RosterFrames ==
    FriendChangeFrames
      \cup ResponseFrames({Ok})
      \cup {<<NOTIFY, 0, ".lq.NotifyNewFriendApply", ApplyPayload>>}

InitRoster ==
    /\ ws = "open"
    /\ index = FirstIndex
    /\ req_events = <<>>
    /\ res = <<>>
    /\ sent = {}
    /\ nframes = 0
    /\ recv_msg = NoFrame
    /\ dispatch_pc = "recv"
    /\ process_pc = "get"
    /\ queue = <<>>
    /\ tasks = <<>>
    /\ calls = <<>>
    /\ friends = <<MajsoulFriend(1, "nick", Offline)>>
    /\ friend_apply_list = <<>>
    /\ game_record = [state |-> "missing", map |-> <<>>]
    /\ emitted = <<>>
    /\ log = {}
    /\ MgrIdle

NextRoster ==
    \/ \E msg \in RosterFrames : DispatchMsg(msg)
    \/ Process
    \/ \E h \in 1..Len(tasks) : FriendChange(h)
    \/ \E h \in 1..Len(tasks) : SendDone(h)
    \/ \E h \in 1..Len(tasks) : NewFriendApply(h)
    \/ \E h \in 1..Len(tasks) : NewFriendApplyResume(h)
    \/ \E h \in 1..Len(tasks) : NewFriendApplySent(h)
    \/ \E h \in 1..Len(tasks) : AcceptResume(h)

SpecRoster == InitRoster /\ [][NextRoster]_vars

(***************************************************************************)
(* The ranks of a friend: the peer reports profile changes.                *)
(***************************************************************************)
Levels == {[id |-> 1, score |-> 10], [id |-> 2, score |-> 10],
           [id |-> 1, score |-> 30], [id |-> 1, score |-> 5]}

ViewChangeFrames ==
    {<<NOTIFY, 0, ".lq.NotifyFriendViewChange",
       [reply_to |-> 0, code |-> 0, players |-> <<>>, target_id |-> t,
        base |-> [level |-> l, level3 |-> m]]>> : t \in {1, 2}, l \in Levels, m \in Levels}

InitView ==
    /\ ws = "open"
    /\ index = FirstIndex
    /\ req_events = <<>>
    /\ res = <<>>
    /\ sent = {}
    /\ nframes = 0
    /\ recv_msg = NoFrame
    /\ dispatch_pc = "recv"
    /\ process_pc = "get"
    /\ queue = <<>>
    /\ tasks = <<>>
    /\ calls = <<>>
    /\ friends = <<change_base(MajsoulFriend(1, "nick", Offline),
                               [level |-> [id |-> 1, score |-> 10],
                                level3 |-> [id |-> 1, score |-> 10]])>>
    /\ friend_apply_list = <<>>
    /\ game_record = [state |-> "missing", map |-> <<>>]
    /\ emitted = <<>>
    /\ log = {}
    /\ MgrIdle

NextView ==
    \/ \E msg \in ViewChangeFrames : DispatchMsg(msg)
    \/ Process
    \/ \E h \in 1..Len(tasks) : FriendViewChange(h)
    \/ \E h \in 1..Len(tasks) : SendDone(h)

SpecView == InitView /\ [][NextView]_vars

(***************************************************************************)
(* fetchLogs on the records the service may return.                        *)
(***************************************************************************)
SeqUpTo(S, n) == UNION {[1..k -> S] : k \in 0..n}

Wrappers == {[name |-> <<"", "lq", "RecordNewRound">>, data |-> 1],
             [name |-> <<"", "lq", "RecordDealTile">>, data |-> 2],
             [name |-> <<"RecordHule">>, data |-> 3]}

Payloads ==
    {[version |-> v, records |-> rs, actions |-> as] :
        v \in {VersionCutoff - 1, VersionCutoff, VersionCutoff + 1},
        rs \in SeqUpTo(Wrappers, MaxLogLen),
        as \in SeqUpTo({[result |-> w] : w \in Wrappers \cup {EmptyWrapper}}, MaxLogLen)}

InitLogs ==
    /\ ws = "open"
    /\ index = FirstIndex
    /\ req_events = <<>>
    /\ res = <<>>
    /\ sent = {}
    /\ nframes = 0
    /\ recv_msg = NoFrame
    /\ dispatch_pc = "recv"
    /\ process_pc = "get"
    /\ queue = <<>>
    /\ tasks = <<>>
    /\ calls = <<>>
    /\ friends = <<>>
    /\ friend_apply_list = <<>>
    /\ game_record = [state |-> "missing", map |-> <<>>]
    /\ emitted = <<>>
    /\ log = {}
    /\ login = NoLogin
    /\ mconn = <<>>
    /\ sessions = <<>>
    /\ mcall = NoCall
    /\ cookies = 0
    /\ \E p \in Payloads : fetch = [pc |-> "await", payload |-> p, action_list |-> <<>>]

NextLogs == FetchLogsReturn

SpecLogs == InitLogs /\ [][NextLogs]_vars

(***************************************************************************)
(* Authentication on a connection that createMajsoulConnection has opened. *)
(***************************************************************************)
NoAccount == [code |-> 0, has_account |-> FALSE, account_id |-> 0]
Granted == [code |-> 0, has_account |-> TRUE, account_id |-> 5]
Refused == [code |-> 1, has_account |-> TRUE, account_id |-> 0]

LoginFrames ==
    {<<RESPONSE, i, "", [reply_to |-> i, code |-> b.code, players |-> <<>>,
                         has_account |-> b.has_account, account_id |-> b.account_id]>> :
        i \in FirstIndex..index, b \in {NoAccount, Granted, Refused}}

InitLogin ==
    /\ ws = "open"
    /\ index = FirstIndex
    /\ req_events = <<>>
    /\ res = <<>>
    /\ sent = {}
    /\ nframes = 0
    /\ recv_msg = NoFrame
    /\ dispatch_pc = "recv"
    /\ process_pc = "get"
    /\ queue = <<>>
    /\ tasks = <<>>
    /\ calls = <<>>
    /\ friends = <<>>
    /\ friend_apply_list = <<>>
    /\ game_record = [state |-> "missing", map |-> <<>>]
    /\ emitted = <<>>
    /\ log = {}
    /\ MgrIdle

NextLogin ==
    \/ AccessTokenLogin
    \/ LoginWake
    \/ LoginResume
    \/ \E msg \in LoginFrames : DispatchMsg(msg)
    \/ TransportClose
    \/ DispatchExit

SpecLogin == InitLogin /\ [][NextLogin]_vars

(***************************************************************************)
(* The manager: start() and restart() called one after the other, with the *)
(* tasks of the sessions running beside them.                              *)
(***************************************************************************)
InitManager ==
    /\ ws = "None"
    /\ index = FirstIndex
    /\ req_events = <<>>
    /\ res = <<>>
    /\ sent = {}
    /\ nframes = 0
    /\ recv_msg = NoFrame
    /\ dispatch_pc = "idle"
    /\ process_pc = "idle"
    /\ queue = <<>>
    /\ tasks = <<>>
    /\ calls = <<>>
    /\ friends = <<>>
    /\ friend_apply_list = <<>>
    /\ game_record = [state |-> "missing", map |-> <<>>]
    /\ emitted = <<>>
    /\ log = {}
    /\ login = NoLogin
    /\ mconn = <<>>
    /\ sessions = <<>>
    /\ mcall = NoCall
    /\ cookies \in 0..MaxCookies
    /\ fetch = NoFetch

NextManager ==
    \/ Start
    \/ StartCookies
    \/ CreateConnection
    \/ FetchInfo
    \/ Restart
    \/ RestartClose
    \/ \E s \in 1..Len(sessions) : SessionDispatchExit(s)
    \/ \E s \in 1..Len(sessions) : SessionHeartbeat(s)

SpecManager == InitManager /\ [][NextManager]_vars

(***************************************************************************)
(* Properties.                                                             *)
(***************************************************************************)
Suspended(h) == tasks[h].pc \in {"await_rpc", "await_send", "await_accept"}
Pending(c) == calls[c].pc = "waiting" /\ ~Resolved(c)

\* C1: every rpc_call that has returned holds the payload of the RESPONSE
\* whose sequence index is the index of its own request, whatever the order
\* in which the responses of the outstanding calls arrived.
C1_ReturnsOwnResponse ==
    \A c \in 1..Len(calls) :
        calls[c].pc = "done" => calls[c].ret.reply_to = calls[c].idx

\* Two calls outstanding together, the later one answered and returned first.
C1_Witness ==
    \E c1, c2 \in 1..Len(calls) :
        /\ calls[c1].idx < calls[c2].idx
        /\ Resolved(c1)
        /\ calls[c2].pc = "done"
        /\ calls[c2].idx # 0
        /\ calls[c2].ret.reply_to = calls[c2].idx

\* C2: once the socket is closed and the dispatch loop has ended, no rpc_call
\* stays suspended on an Event that was not set: the calls pending at that
\* moment have been resolved (with a connection-broken failure).
C2_NoCallLeftSuspended ==
    dispatch_pc = "exited" /\ ws = "closed" => \A c \in 1..Len(calls) : ~Pending(c)

\* C3: while a notification handler is suspended, the dispatch loop is back at
\* its recv: with the socket open it does not wait for the handler, and the
\* RESPONSE of every pending call can be received and dispatched.
C3_DispatchNeverWaits ==
    \A h \in 1..Len(tasks) :
        Suspended(h) /\ ws = "open" =>
            /\ dispatch_pc = "recv"
            /\ nframes < MaxFrames =>
                  \A c \in 1..Len(calls) :
                      Pending(c) =>
                          ENABLED DispatchMsg(<<RESPONSE, calls[c].idx, "",
                                                [reply_to |-> calls[c].idx, code |-> 0,
                                                 players |-> <<"nick">>]>>)

\* The new-friend-application handler waits on its own rpc_call; a call issued
\* after it has had its RESPONSE dispatched.
C3_Witness ==
    \E h \in 1..Len(tasks) : \E c \in UserCalls :
        /\ tasks[h].pc = "await_rpc"
        /\ Pending(tasks[h].call)
        /\ calls[c].idx > calls[tasks[h].call].idx
        /\ Resolved(c)

\* C4: the handler of a notification does not start before the handler of
\* every earlier notification has completed.
C4_HandlersOneAtATime ==
    \A h1, h2 \in 1..Len(tasks) :
        h1 < h2 /\ tasks[h2].pc # "created" => Finished(h1)

\* C5: a RESPONSE whose index has no entry in _req_events is discarded: both
\* tables and every call are as before, and the loop is at its recv again.
C5_UnknownResponseDiscarded ==
    [][(/\ nframes' = nframes + 1
        /\ data'.msg_type = RESPONSE
        /\ data'.req_index \notin DOMAIN req_events)
       => (/\ req_events' = req_events
           /\ res' = res
           /\ calls' = calls
           /\ dispatch_pc' = "recv")]_vars

\* A RESPONSE for an index no call has been given yet was received while a
\* call was pending.
C5_Witness ==
    /\ data.msg_type = RESPONSE
    /\ data.req_index = index
    /\ dispatch_pc = "recv"
    /\ \E c \in 1..Len(calls) : Pending(c)

\* C6: after the dispatch loop has ended on the closed socket, an rpc_call or
\* check_alive that starts fails at once with the connection-broken error,
\* registers no waiter and sends nothing.
C6_FailsFastWhenBroken ==
    [][(/\ dispatch_pc = "exited"
        /\ ws = "closed"
        /\ Len(calls') = Len(calls) + 1)
       => (/\ calls'[Len(calls')].pc = "failed"
           /\ calls'[Len(calls')].err = "ConnectionError"
           /\ req_events' = req_events
           /\ sent' = sent)]_vars

Registered(h) == \E k \in 1..Len(friends) : friends[k].account_id = tasks[h].arg.target_id

\* Tasks h and h + 1 handle the same friend-state-change notification.
SameTwice(h) ==
    /\ h + 1 \in 1..Len(tasks)
    /\ tasks[h].kind = ".lq.NotifyFriendStateChange"
    /\ tasks[h + 1].kind = ".lq.NotifyFriendStateChange"
    /\ tasks[h].arg = tasks[h + 1].arg
    /\ tasks[h + 1].pc # "created"

\* C9: of two friend-state-change notifications with the same content handled
\* one after the other, the second emits no event.
C9_NoEventOnReplay ==
    \A h \in 1..Len(tasks) : SameTwice(h) => tasks[h + 1].msg = NoMsg

\* The first application was a transition and emitted its event.
C9_Witness ==
    \E h \in 1..Len(tasks) :
        /\ SameTwice(h)
        /\ Registered(h)
        /\ tasks[h].msg # NoMsg
        /\ tasks[h + 1].pc = "done"

\* C10: after the handler of a friend-state-change notification for a
\* registered friend has run (and before the next handler runs), the stored
\* state of that friend is the snapshot of the notification.
C10_StoredStateIsSnapshot ==
    \A h \in 1..Len(tasks) :
        (/\ tasks[h].kind = ".lq.NotifyFriendStateChange"
         /\ tasks[h].pc # "created"
         /\ h = Len(tasks) \/ tasks[h + 1].pc = "created")
        => \A k \in 1..Len(friends) :
              friends[k].account_id = tasks[h].arg.target_id =>
                  /\ friends[k].is_online = tasks[h].arg.active_state.is_online
                  /\ friends[k].playing = tasks[h].arg.active_state.playing

\* The event a handler has prepared: the first word of its message.
EventOf(m) == IF m = NoMsg THEN "none" ELSE m[1]

\* C11: a friend-state-change notification for a registered friend whose
\* online flag goes false to true makes the handler emit "came online", and
\* one whose flag goes true to false "went offline", whatever else changes in
\* the same notification (the attribution file being readable).
C11_OnlineChangeAlwaysEmitted ==
    [][\A h \in 1..Len(tasks) :
          (FriendStateChange(h) /\ game_record.state = "ok") =>
              \A k \in 1..Len(friends) :
                  friends[k].account_id = tasks[h].arg.target_id =>
                      /\ (~friends[k].is_online /\ tasks[h].arg.active_state.is_online)
                            => EventOf(tasks'[h].msg) = "online"
                      /\ (friends[k].is_online /\ ~tasks[h].arg.active_state.is_online)
                            => EventOf(tasks'[h].msg) = "offline"]_vars

\* C12: a friend-state-change notification for a registered friend whose match
\* descriptor goes absent to present emits "started a match", one whose
\* descriptor goes present to absent emits "finished a match", and in both
\* cases the attribution file afterwards maps the match id to the account id.
C12_MatchTransitionRecorded ==
    [][\A h \in 1..Len(tasks) :
          FriendStateChange(h) =>
              \A k \in 1..Len(friends) :
                  friends[k].account_id = tasks[h].arg.target_id =>
                      LET old == friends[k].playing
                          new == tasks[h].arg.active_state.playing
                      IN
                      /\ (~Truthy(old) /\ Truthy(new)) =>
                            /\ EventOf(tasks'[h].msg) = "start"
                            /\ game_record'.state = "ok"
                            /\ new.game_uuid \in DOMAIN game_record'.map
                            /\ game_record'.map[new.game_uuid] = friends[k].account_id
                      /\ (Truthy(old) /\ ~Truthy(new)) =>
                            /\ EventOf(tasks'[h].msg) = "end"
                            /\ game_record'.state = "ok"
                            /\ old.game_uuid \in DOMAIN game_record'.map
                            /\ game_record'.map[old.game_uuid] = friends[k].account_id]_vars

\* C13: whatever the branch, a friend-state-change handler that finds the
\* attribution file missing or unparsable does not fail, updates the friend's
\* state and leaves a well-formed file behind.
C13_MissingFileIsEmptyMap ==
    [][\A h \in 1..Len(tasks) :
          (FriendStateChange(h) /\ game_record.state # "ok") =>
              \A k \in 1..Len(friends) :
                  friends[k].account_id = tasks[h].arg.target_id =>
                      /\ tasks'[h].pc # "failed"
                      /\ friends'[k] = change_state(friends[k], tasks[h].arg.active_state)
                      /\ game_record'.state = "ok"]_vars

\* C17: the friend registry never holds two entries with the same account id.
C17_NoDuplicateFriends ==
    \A i, j \in 1..Len(friends) :
        friends[i].account_id = friends[j].account_id => i = j

\* Task h has handled a "friend added" (type 1) notification for account a.
FriendAdded(h, a) ==
    /\ tasks[h].kind = ".lq.NotifyFriendChange"
    /\ tasks[h].pc # "created"
    /\ tasks[h].arg.type = 1
    /\ tasks[h].arg.account_id = a

\* Task h has accepted the application of account a: its handleFriendApply
\* call has returned.
Accepted(h, a) ==
    /\ tasks[h].kind = ".lq.NotifyNewFriendApply"
    /\ tasks[h].arg.account_id = a
    /\ tasks[h].pc = "done"
    /\ tasks[h].call \in 1..Len(calls)
    /\ <<REQUEST, calls[tasks[h].call].idx, ".lq.Lobby.handleFriendApply", NoPayload>>
           \in sent

\* A new-application notification for account a other than the one of task h
\* that arrived after the notification of task h, or is still on the queue.
AppliedAfter(h, a) ==
    \/ \E g \in (h + 1)..Len(tasks) :
           tasks[g].kind = ".lq.NotifyNewFriendApply" /\ tasks[g].arg.account_id = a
    \/ \E q \in 1..Len(queue) :
           queue[q].kind = ".lq.NotifyNewFriendApply" /\ queue[q].arg.account_id = a

\* C18: once the application of account a was accepted, or a "friend added"
\* notification for a was handled, a is not in friend_apply_list, as long as
\* no new-application notification for a has arrived since.
C18_RemovedApplicationStaysRemoved ==
    \A h \in 1..Len(tasks) : \A a \in {1, 7} :
        ((FriendAdded(h, a) \/ Accepted(h, a)) /\ ~AppliedAfter(h, a))
            => ~InSeq(friend_apply_list, a)

\* C19: a friend-list notification of a type other than 1 and 2 for an account
\* in the registry replaces the stored friend by the friend of the
\* notification and emits "data refreshed".
C19_UpdateReplacesFriend ==
    [][\A h \in 1..Len(tasks) :
          (FriendChange(h) /\ tasks[h].arg.type \notin {1, 2}) =>
              \A k \in 1..Len(friends) :
                  friends[k].account_id = tasks[h].arg.account_id =>
                      /\ EventOf(tasks'[h].msg) = "updated"
                      /\ Len(friends') = Len(friends)
                      /\ friends'[k] = MajsoulFriend(tasks[h].arg.friend.account_id,
                                                     tasks[h].arg.friend.nickname,
                                                     tasks[h].arg.friend.state)]_vars

\* C20: after a type-2 friend-list notification for account a was handled, no
\* entry of the registry has account id a, and "removed" was emitted if a was
\* in the registry.
C20_RemovedFriendIsGone ==
    [][\A h \in 1..Len(tasks) :
          (FriendChange(h) /\ tasks[h].arg.type = 2) =>
              /\ \A k \in 1..Len(friends') :
                     friends'[k].account_id # tasks[h].arg.account_id
              /\ (\E k \in 1..Len(friends) :
                     friends[k].account_id = tasks[h].arg.account_id)
                   => EventOf(tasks'[h].msg) = "removed"]_vars

\* accessTokenLogin has ended: it returned or it raised.
LoginEnded == login.pc \in {"ready", "raised"}

\* The method was written to the socket.
WasSent(method_name) == \E m \in sent : m[3] = method_name

\* The retried account check (the second call of the login) has returned, and
\* reported has_account = b.
RetryReported(b) ==
    /\ login.checks = 2
    /\ Len(calls) >= 2
    /\ calls[2].pc = "done"
    /\ calls[2].ret.has_account = b

\* The account check is made at most twice, the second time after one pause
\* that follows a first check without account; a retry without account ends
\* the login with no oauth2Login sent.
RetryAtMostOnce ==
    /\ login.checks <= 2
    /\ login.checks = 2 =>
          /\ login.slept = 1
          /\ calls[1].pc = "done"
          /\ ~calls[1].ret.has_account
    /\ login.checks < 2 => login.slept = 0
    /\ RetryReported(FALSE) =>
          /\ login.pc = "raised"
          /\ ~WasSent(".lq.Lobby.oauth2Login")

\* C14, as stated: the check is made at most twice, with one pause before
\* the retry; a retry that reports an account is followed (the connection
\* being up) by the login and login-beat calls and the session is
\* established; a retry without account fails the login and no login call is
\* sent.
C14_RetryThenEstablished ==
    /\ RetryAtMostOnce
    /\ (LoginEnded /\ RetryReported(TRUE) /\ ws = "open") =>
          /\ login.pc = "ready"
          /\ WasSent(".lq.Lobby.oauth2Login")
          /\ WasSent(".lq.Lobby.loginBeat")

\* C14, amended: a retry that reports an account is followed by the login
\* call while the connection is up; the login-beat call follows if the login
\* yields an account id, and the session is established if login-beat reports
\* no error.
C14_RetryThenLoginAttempted ==
    /\ RetryAtMostOnce
    /\ (LoginEnded /\ RetryReported(TRUE) /\ ws = "open") =>
          /\ WasSent(".lq.Lobby.oauth2Login")
          /\ calls[3].pc = "done"
          /\ calls[3].ret.account_id # 0 =>
                /\ WasSent(".lq.Lobby.loginBeat")
                /\ calls[4].pc = "done"
                /\ login.account_id = calls[3].ret.account_id
                /\ calls[4].ret.code = 0 <=> login.pc = "ready"
          /\ calls[3].ret.account_id = 0 =>
                /\ login.pc = "raised"
                /\ ~WasSent(".lq.Lobby.loginBeat")

\* The first check found no account, the retry did, the session is ready.
C14_Witness ==
    /\ RetryReported(TRUE)
    /\ login.slept = 1
    /\ login.pc = "ready"
    /\ login.account_id # 0

\* C15: when restart() has returned, every session the manager held before
\* has its heartbeat and its notification worker cancelled or stopped and its
\* socket closed (the dispatch loop ends by itself on the closed socket), none
\* of them is held any more, and start() has built the new sessions.
C15_RestartTearsDownEverySession ==
    (mcall.op = "restart" /\ mcall.pc = "done") =>
        /\ \A k \in 1..Len(mcall.old) :
              /\ sessions[mcall.old[k]].ws = "closed"
              /\ sessions[mcall.old[k]].heartbeat \in {"cancelled", "stopped"}
              /\ sessions[mcall.old[k]].process_pc \in {"cancelled", "exited"}
              /\ \A j \in 1..Len(mconn) : mconn[j] # mcall.old[k]
        /\ Len(mconn) = cookies

\* C16: a start() entered while sessions are held returns at once, opens no
\* connection, fetches no roster and leaves the session list as it was; a
\* start() entered with no session that has returned holds one new session
\* per stored credential, each with its roster fetched once.
C16_StartIdempotent ==
    /\ (mcall.op = "start" /\ mcall.old # <<>>) =>
          /\ mcall.pc = "done"
          /\ mconn = mcall.old
          /\ Len(sessions) = Len(mcall.snap)
          /\ \A s \in 1..Len(sessions) : sessions[s].fetched = mcall.snap[s].fetched
    /\ (mcall.op = "start" /\ mcall.old = <<>> /\ mcall.pc = "done") =>
          /\ Len(mconn) = cookies
          /\ Len(sessions) = Len(mcall.snap) + cookies
          /\ \A k \in 1..Len(mconn) :
                /\ mconn[k] = Len(mcall.snap) + k
                /\ sessions[mconn[k]].fetched = 1

\* A start() that found two sessions held has returned.
C16_Witness ==
    /\ mcall.op = "start"
    /\ mcall.pc = "done"
    /\ Len(mcall.old) = 2
    /\ mcall.n >= 2
    /\ \A k \in 1..Len(mconn) : sessions[mconn[k]].fetched = 1

\* C24: an rpc_call that has ended, by returning or by raising after it took
\* its index, has no entry left in self._req_events nor in self._res; and
\* every index with a stored response has a registered Event.
C24_CorrelationTableNeverLeaks ==
    /\ \A c \in 1..Len(calls) :
          (/\ calls[c].via = "rpc_call"
           /\ calls[c].pc \in {"done", "failed"}
           /\ calls[c].err # "ConnectionError")
          => /\ calls[c].idx \notin DOMAIN req_events
             /\ calls[c].idx \notin DOMAIN res
    /\ DOMAIN res \subseteq DOMAIN req_events

\* The match id that a notification with snapshot a records for the friend.
RecordedBy(friend, a) ==
    IF a.playing.game_uuid # "" /\ friend.playing.game_uuid = ""
    THEN {a.playing.game_uuid}
    ELSE IF ~Truthy(a.playing) /\ Truthy(friend.playing)
    THEN {friend.playing.game_uuid}
    ELSE {}

\* C21: the handler of a friend-state-change notification that finds a
\* readable attribution file leaves every entry of it in place with its
\* value, but for the match id that the notification records.
C21_AttributionAmendedNotReplaced ==
    [][\A h \in 1..Len(tasks) :
          (FriendStateChange(h) /\ game_record.state = "ok") =>
              /\ game_record'.state = "ok"
              /\ \A id \in DOMAIN game_record.map :
                    /\ id \in DOMAIN game_record'.map
                    /\ \/ game_record'.map[id] = game_record.map[id]
                       \/ \E k \in 1..Len(friends) :
                             /\ friends[k].account_id = tasks[h].arg.target_id
                             /\ id \in RecordedBy(friends[k], tasks[h].arg.active_state)]_vars

\* A handler has recorded match g2 in a file that held g1 of account 9.
C21_Witness ==
    /\ game_record.state = "ok"
    /\ DOMAIN game_record.map = {"g1", "g2"}
    /\ game_record.map["g1"] = 9
    /\ game_record.map["g2"] = 1
    /\ \E h \in 1..Len(tasks) :
          tasks[h].kind = ".lq.NotifyFriendStateChange" /\ tasks[h].pc = "done"

\* The message has a part of the kind.
HasPart(m, kind) == \E i \in 1..Len(m) : m[i][1] = kind

\* C22: on a profile notification for a registered friend, a changed 4-player
\* tier id puts a 4-player tier message into the text sent, and a changed
\* 3-player tier id a 3-player tier message, each whatever the other track does.
C22_TierChangesReportedPerTrack ==
    [][\A h \in 1..Len(tasks) :
          FriendViewChange(h) =>
              \A k \in 1..Len(friends) :
                  friends[k].account_id = tasks[h].arg.target_id =>
                      /\ tasks[h].arg.base.level.id # friends[k].level.id
                            => HasPart(tasks'[h].msg, "tier4")
                      /\ tasks[h].arg.base.level3.id # friends[k].level3.id
                            => HasPart(tasks'[h].msg, "tier3")]_vars

\* fetchLogs has returned, and its action list holds one item for each of the
\* wrappers, in their order, named by the third part of the wrapper's name.
Transcribes(wrappers) ==
    /\ fetch.pc = "done"
    /\ Len(fetch.action_list) = Len(wrappers)
    /\ \A i \in 1..Len(wrappers) :
          /\ fetch.action_list[i].name = wrappers[i].name[3]
          /\ fetch.action_list[i].data = wrappers[i].data

\* C23, as stated: the version alone selects the source; before the cutoff
\* the action list is made of the flat records, from the cutoff on of the
\* actions that have a result, one item each, in the original order.
C23_SourceByVersionAlone ==
    fetch.pc = "done" =>
        IF fetch.payload.version < VersionCutoff
        THEN Transcribes(fetch.payload.records)
        ELSE Transcribes(Results(fetch.payload.actions))

\* C23, amended: the flat records are the source when the version is before
\* the cutoff and there is at least one record; in every other case the
\* source is the actions that have a result.
C23_SourceByVersionAndRecords ==
    fetch.pc = "done" =>
        IF fetch.payload.version < VersionCutoff /\ fetch.payload.records # <<>>
        THEN Transcribes(fetch.payload.records)
        ELSE Transcribes(Results(fetch.payload.actions))

\* A record of an old version without flat records, whose actions were used;
\* one of them has no result.
C23_Witness ==
    /\ fetch.pc = "done"
    /\ fetch.payload.version < VersionCutoff
    /\ fetch.payload.records = <<>>
    /\ Len(fetch.action_list) = 1
    /\ Len(fetch.payload.actions) = 2

====
